---- MODULE Spec2Model ----
(***************************************************************************)
(* Model of the image utilities of pepe-manager-rust-image-api             *)
(* (src/src/image_utilities.rs): the boundary cropper out_of_bounds_crop,  *)
(* the alpha compositor (copy_within_alpha_threshold, copy_with_blend),    *)
(* the circular masker round_image, the GIF wrapper                        *)
(* GifAssistant::create_gif and the rotation filter                        *)
(* CustomRotation::rotate.                                                 *)
(*                                                                         *)
(* Numbers.  A u32 is held as its 32-bit pattern read as a two's           *)
(* complement integer: the u32 values 0 .. 2^31-1 are themselves, and a    *)
(* u32 value v >= 2^31 is written v - 2^32 (so u32::MAX is -1).  An i32 is *)
(* itself.  Unsigned comparison, checked and wrapping arithmetic are       *)
(* defined on that representation below.  Rust traps an integer overflow   *)
(* when the build has overflow checks (debug profile) and wraps when it    *)
(* has not (release profile); the variable overflow_checks is the build.   *)
(***************************************************************************)
EXTENDS Integers, Sequences, FiniteSets, TLC

VARIABLES
    overflow_checks, \* TRUE: arithmetic overflow panics; FALSE: it wraps
    cropper,         \* one call of out_of_bounds_crop
    compositor,      \* one call of copy_within_alpha_threshold / copy_with_blend
    masker,          \* a buffer and the calls of round_image made on it
    gif,             \* one call of GifAssistant::create_gif
    rotator          \* one call of CustomRotation::rotate

vars == <<overflow_checks, cropper, compositor, masker, gif, rotator>>

\* A component that takes no part in the specification at hand.
Idle == [pc |-> "idle"]

(***************************************************************************)
(* 32-bit arithmetic                                                       *)
(***************************************************************************)

\* i32::MAX and i32::MIN, the largest and the smallest 32-bit pattern.
I32Max == 2^30 - 1 + 2^30
I32Min == 0 - I32Max - 1

\* The 32-bit pattern of a + b (wrapping_add): a sum of two patterns that
\* passes I32Max comes back 2^32 lower, one below I32Min 2^32 higher.
WrapAdd(a, b) ==
    IF a >= 0 /\ b >= 0 /\ a > I32Max - b THEN (a + I32Min) + (b + I32Min)
    ELSE IF a < 0 /\ b < 0 /\ a < I32Min - b THEN (a - I32Min) + (b - I32Min)
    ELSE a + b

\* The 32-bit pattern of a - b (wrapping_sub).
WrapSub(a, b) ==
    IF a >= 0 /\ b < 0 /\ a > I32Max + b THEN (a + I32Min) - (b - I32Min)
    ELSE IF a < 0 /\ b >= 0 /\ a < I32Min + b THEN (a - I32Min) - (b + I32Min)
    ELSE a - b

\* The 32-bit pattern whose upper 16 bits are hi and lower 16 bits are lo.
FromHalves(hi, lo) ==
    IF hi >= 2^15 THEN (hi - 2^16) * 2^16 + lo ELSE hi * 2^16 + lo

\* The 32-bit pattern of a * a (wrapping_pow(2)), from the four bytes of a:
\* the byte products at 2^32 and above do not reach the pattern.
WrapSquare(a) ==
    LET b0 == a % 2^8
        b1 == (a \div 2^8) % 2^8
        b2 == (a \div 2^16) % 2^8
        b3 == (a \div 2^24) % 2^8
        low == b0 * b0 + (2 * b0 * b1) * 2^8
        high == low \div 2^16 + 2 * b0 * b2 + b1 * b1
                    + ((2 * b0 * b3 + 2 * b1 * b2) % 2^8) * 2^8
    IN  FromHalves(high % 2^16, low % 2^16)

\* a < b for two u32 patterns.
ULt(a, b) == IF (a < 0) = (b < 0) THEN a < b ELSE b < 0

\* u32 / 2.
UHalf(a) == IF a >= 0 THEN a \div 2 ELSE (a \div 2) + I32Max + 1

\* core::cmp::min on u32.
UMin(a, b) == IF ULt(b, a) THEN b ELSE a

\* u32 - u32: traps on underflow when the build checks, wraps otherwise.
USub(a, b, checks) == [ok |-> ~(checks /\ ULt(a, b)), v |-> WrapSub(a, b)]

\* u32 + u32: the sum passes 2^32 when both have the top bit set, or when one
\* has and the wrapped sum has not.
UAddOverflows(a, b) ==
    \/ a < 0 /\ b < 0
    \/ (a < 0) # (b < 0) /\ a + b >= 0

UAdd(a, b, checks) == [ok |-> ~(checks /\ UAddOverflows(a, b)), v |-> WrapAdd(a, b)]

\* u32::pow(2): the square passes 2^32 from 2^16 on (every pattern with the
\* top bit set is above that).
UPow2(a, checks) == [ok |-> ~(checks /\ (a < 0 \/ a >= 2^16)), v |-> WrapSquare(a)]

\* i32 + i32: traps when the sum leaves I32Min .. I32Max and the build
\* checks, wraps otherwise.
IAddOverflows(a, b) ==
    \/ a >= 0 /\ b >= 0 /\ a > I32Max - b
    \/ a < 0 /\ b < 0 /\ a < I32Min - b

IAdd(a, b, checks) == [ok |-> ~(checks /\ IAddOverflows(a, b)), v |-> WrapAdd(a, b)]

\* i32 - i32.
ISubOverflows(a, b) ==
    \/ a >= 0 /\ b < 0 /\ a > I32Max + b
    \/ a < 0 /\ b >= 0 /\ a < I32Min + b

ISub(a, b, checks) == [ok |-> ~(checks /\ ISubOverflows(a, b)), v |-> WrapSub(a, b)]

\* u32 -> i32 (TryInto): fails for a value above i32::MAX.
U32ToI32(a) == [ok |-> a >= 0, v |-> a]

\* i32 -> u32 (TryInto): fails for a negative value.
I32ToU32(a) == [ok |-> a >= 0, v |-> a]

(***************************************************************************)
(* Boundary cropper: out_of_bounds_crop                                    *)
(*                                                                         *)
(* The image is held as the window of the caller's image it shows: left    *)
(* and top are the source column and row of its first sample.              *)
(***************************************************************************)

MaxImg == 3      \* image sides 1 .. MaxImg
MaxPos == 4      \* placements -MaxPos .. MaxPos
MaxCanvas == 3   \* canvas sides 1 .. MaxCanvas

\* The sides, placements and canvas sides tried; each adds the values of the
\* 50x50 image placed at (-10, 5) on a 40x40 canvas.  The placements add one
\* within 50 of i32::MAX, the canvas sides add u32::MAX.
ImgSides == (1..MaxImg) \cup {50}
Placements == ((0 - MaxPos)..MaxPos) \cup {-10, 5, I32Max - 9}
CanvasSides == (1..MaxCanvas) \cup {40, -1}

WholeImage(w, h) == [left |-> 0, top |-> 0, width |-> w, height |-> h]

\* DynamicImage::crop(x, y, width, height): the rectangle is clamped to the
\* image (imageops::crop), never an error.
Crop(img, x, y, width, height) ==
    LET cx == UMin(x, img.width)
        cy == UMin(y, img.height)
        ch == UMin(height, WrapSub(img.height, cy))
        cw == UMin(width, WrapSub(img.width, cx))
    IN  [left |-> img.left + cx, top |-> img.top + cy, width |-> cw, height |-> ch]

Panicked(out) == [panicked |-> TRUE, output |-> out]
Returned(out) == [panicked |-> FALSE, output |-> out]

\* "check the y-axis"
CheckYAxis(output, y_pos, max_height, checks) ==
    LET img == output.image
        avatar_height_signed == U32ToI32(img.height)
        max_signed == U32ToI32(max_height)
        height_total == IAdd(avatar_height_signed.v, y_pos, checks)
    IN  IF ~avatar_height_signed.ok \/ ~height_total.ok \/ ~max_signed.ok
        THEN Panicked(output)
        ELSE IF height_total.v > max_signed.v
        THEN LET y_pos_unsigned == I32ToU32(y_pos)
                 total == UAdd(img.height, y_pos_unsigned.v, checks)
                 over == USub(total.v, max_height, checks)
                 new_height == USub(img.height, over.v, checks)
             IN  IF ~y_pos_unsigned.ok \/ ~total.ok \/ ~over.ok \/ ~new_height.ok
                 THEN Panicked(output)
                 ELSE Returned([output EXCEPT
                          !.image = Crop(img, 0, 0, img.width, new_height.v),
                          !.y_pos = y_pos_unsigned.v])
        ELSE IF y_pos < 0
        THEN LET negated == ISub(0, y_pos, checks)
                 skip == I32ToU32(negated.v)
                 keep == I32ToU32(height_total.v)
             IN  IF ~negated.ok \/ ~skip.ok \/ ~keep.ok
                 THEN Panicked(output)
                 ELSE Returned([output EXCEPT
                          !.image = Crop(img, 0, skip.v, img.width, keep.v)])
        ELSE Returned([output EXCEPT !.y_pos = I32ToU32(y_pos).v])

\* "check the x-axis"
CheckXAxis(output, x_pos, max_width, checks) ==
    LET img == output.image
        avatar_width_signed == U32ToI32(img.width)
        max_signed == U32ToI32(max_width)
        width_total == IAdd(avatar_width_signed.v, x_pos, checks)
    IN  IF ~avatar_width_signed.ok \/ ~width_total.ok \/ ~max_signed.ok
        THEN Panicked(output)
        ELSE IF width_total.v > max_signed.v
        THEN LET x_pos_unsigned == I32ToU32(x_pos)
                 total == UAdd(img.width, x_pos_unsigned.v, checks)
                 over == USub(total.v, max_width, checks)
                 new_width == USub(img.width, over.v, checks)
             IN  IF ~x_pos_unsigned.ok \/ ~total.ok \/ ~over.ok \/ ~new_width.ok
                 THEN Panicked(output)
                 ELSE Returned([output EXCEPT
                          !.image = Crop(img, 0, 0, new_width.v, img.height),
                          !.x_pos = x_pos_unsigned.v])
        ELSE IF x_pos < 0
        THEN LET negated == ISub(0, x_pos, checks)
                 skip == I32ToU32(negated.v)
                 keep == I32ToU32(width_total.v)
             IN  IF ~negated.ok \/ ~skip.ok \/ ~keep.ok
                 THEN Panicked(output)
                 \* the call passes (0, -x_pos, width_total, height) as (x, y, width, height)
                 ELSE Returned([output EXCEPT
                          !.image = Crop(img, 0, skip.v, keep.v, img.height)])
        ELSE Returned([output EXCEPT !.x_pos = I32ToU32(x_pos).v])

InitCrop ==
    /\ overflow_checks \in BOOLEAN
    /\ \E w \in ImgSides, h \in ImgSides, x \in Placements, y \in Placements,
          mw \in CanvasSides, mh \in CanvasSides :
          cropper = [pc |-> "y_axis",
                     width |-> w, height |-> h,
                     x_pos |-> x, y_pos |-> y,
                     max_width |-> mw, max_height |-> mh,
                     output |-> [image |-> WholeImage(w, h), x_pos |-> 0, y_pos |-> 0]]
    /\ compositor = Idle
    /\ masker = Idle
    /\ gif = Idle
    /\ rotator = Idle

\* out_of_bounds_crop, first half: the output is built and the Y axis resolved.
CropYAxis ==
    /\ cropper.pc = "y_axis"
    /\ LET r == CheckYAxis(cropper.output, cropper.y_pos, cropper.max_height,
                           overflow_checks)
       IN  cropper' = [cropper EXCEPT
                          !.pc = IF r.panicked THEN "panicked" ELSE "x_axis",
                          !.output = r.output]
    /\ UNCHANGED <<overflow_checks, compositor, masker, gif, rotator>>

\* out_of_bounds_crop, second half: the X axis resolved and the output returned.
CropXAxis ==
    /\ cropper.pc = "x_axis"
    /\ LET r == CheckXAxis(cropper.output, cropper.x_pos, cropper.max_width,
                           overflow_checks)
       IN  cropper' = [cropper EXCEPT
                          !.pc = IF r.panicked THEN "panicked" ELSE "done",
                          !.output = r.output]
    /\ UNCHANGED <<overflow_checks, compositor, masker, gif, rotator>>

NextCrop == CropYAxis \/ CropXAxis

SpecCrop == InitCrop /\ [][NextCrop]_vars

(***************************************************************************)
(* Alpha compositor: copy_within_alpha_threshold and copy_with_blend       *)
(*                                                                         *)
(* A buffer is [width, height, px], px a function from <<column, row>> to  *)
(* the sample <<R, G, B, A>>.                                              *)
(***************************************************************************)

MaxBase == 3      \* destination sides 1 .. MaxBase
MaxOverlay == 2   \* overlay sides 1 .. MaxOverlay
MaxOffset == 2    \* small offsets 0 .. MaxOffset

\* The offsets tried: the small ones, and u32::MAX and u32::MAX - 1.
Offsets == (0..MaxOffset) \cup {-1, -2}
AlphaLevels == {0, 128, 255}
Thresholds == {0, 128, 255}

Coords(w, h) == (0..(w - 1)) \X (0..(h - 1))

\* Destination samples: opaque, each carrying its own position.
BaseSample(i, k) == <<i, k, 255, 255>>

\* Pixel::blend for Rgba<u8>, on the two source alphas where it returns
\* before any floating point: a clear source leaves the background, an opaque
\* source replaces it.
Blend(bg, fg) ==
    CASE fg[4] = 0 -> bg
      [] fg[4] = 255 -> fg

\* The bounds check of both functions: "dimension_mismatch" when the overlay
\* does not fit, "fits" when it does, "panic" when a sum traps.
BoundsCheck(self, other, x, y, checks) ==
    LET right == UAdd(other.width, x, checks)
        bottom == UAdd(other.height, y, checks)
    IN  IF ~right.ok THEN "panic"
        ELSE IF ULt(self.width, right.v) THEN "dimension_mismatch"
        ELSE IF ~bottom.ok THEN "panic"
        ELSE IF ULt(self.height, bottom.v) THEN "dimension_mismatch"
        ELSE "fits"

\* Target gone wrong: the offset is left out of the position written.
TargetWithoutOffset(self, i, k, x, y, checks) ==
    [ok |-> ULt(i, self.width) /\ ULt(k, self.height), at |-> <<i, k>>]

\* ImageBuffer::put_pixel / get_pixel_mut at (i + x, k + y): the position, or
\* a panic when a sum traps or the position is outside the buffer.
Target(self, i, k, x, y, checks) ==
    LET col == UAdd(i, x, checks)
        row == UAdd(k, y, checks)
    IN  [ok |-> /\ col.ok /\ row.ok
                /\ ULt(col.v, self.width) /\ ULt(row.v, self.height),
         at |-> <<col.v, row.v>>]

\* OpaqueEnough gone wrong: a sample at the threshold is copied too.
OpaqueEnoughInclusive(p, threshold) == p[4] >= threshold

\* Whether the loop body copies the overlay sample p as it is.
OpaqueEnough(p, threshold) == p[4] > threshold

\* The loops "for k in 0..other.height()", "for i in 0..other.width()" of
\* copy_within_alpha_threshold from the overlay sample (i, k) on (row by
\* row), st = [px, panicked].
RECURSIVE StampFrom(_, _, _, _, _, _, _, _, _)
StampFrom(k, i, st, self, other, x, y, threshold, checks) ==
    IF st.panicked \/ ~ULt(k, other.height) THEN st
    ELSE IF ~ULt(i, other.width)
    THEN StampFrom(WrapAdd(k, 1), 0, st, self, other, x, y, threshold, checks)
    ELSE LET p == other.px[<<i, k>>]
             t == Target(self, i, k, x, y, checks)
             next == IF OpaqueEnough(p, threshold)
                     THEN IF t.ok
                          THEN [st EXCEPT !.px[t.at] = p]
                          ELSE [st EXCEPT !.panicked = TRUE]
                     ELSE st
         IN  StampFrom(k, WrapAdd(i, 1), next, self, other, x, y, threshold, checks)

\* The loops of copy_with_blend from the overlay sample (i, k) on.
RECURSIVE BlendFrom(_, _, _, _, _, _, _, _, _)
BlendFrom(k, i, st, self, other, x, y, threshold, checks) ==
    IF st.panicked \/ ~ULt(k, other.height) THEN st
    ELSE IF ~ULt(i, other.width)
    THEN BlendFrom(WrapAdd(k, 1), 0, st, self, other, x, y, threshold, checks)
    ELSE LET p == other.px[<<i, k>>]
             t == Target(self, i, k, x, y, checks)
             next == IF ~t.ok THEN [st EXCEPT !.panicked = TRUE]
                     ELSE IF OpaqueEnough(p, threshold)
                     THEN [st EXCEPT !.px[t.at] = p]
                     ELSE [st EXCEPT !.px[t.at] = Blend(st.px[t.at], p)]
         IN  BlendFrom(k, WrapAdd(i, 1), next, self, other, x, y, threshold, checks)

\* The overlays tried: the alpha of a sample is one level where column + row
\* is even and another where it is odd; its colour carries its position.
Overlay(w, h, even, odd) ==
    [width |-> w, height |-> h,
     px |-> [c \in Coords(w, h) |->
                <<255, c[1], c[2], IF (c[1] + c[2]) % 2 = 0 THEN even ELSE odd>>]]

Red == <<255, 0, 0, 255>>
Blue == <<0, 0, 255, 255>>

Call(mode, self, other, x, y, threshold) ==
    [pc |-> "call", mode |-> mode, self |-> self, before |-> self, other |-> other,
     x |-> x, y |-> y, threshold |-> threshold, result |-> "none"]

\* copy_with_blend is tried only where Blend is defined: a sample it blends
\* (alpha at or below the threshold) is clear or opaque.
InitCopySmall ==
    \E mode \in {"stamp", "blend"}, sw \in 1..MaxBase, sh \in 1..MaxBase,
       ow \in 1..MaxOverlay, oh \in 1..MaxOverlay,
       even \in AlphaLevels, odd \in AlphaLevels,
       x \in Offsets, y \in Offsets, threshold \in Thresholds :
        /\ mode = "blend" =>
              \A a \in {even, odd} : a > threshold \/ a \in {0, 255}
        /\ compositor = Call(mode, [width |-> sw, height |-> sh,
                                    px |-> [c \in Coords(sw, sh) |-> BaseSample(c[1], c[2])]],
                             Overlay(ow, oh, even, odd), x, y, threshold)

\* A 10x10 opaque red overlay stamped at (5, 5), threshold 0, on a 20x20 blue base.
InitCopyScenario ==
    compositor = Call("stamp",
                      [width |-> 20, height |-> 20, px |-> [c \in Coords(20, 20) |-> Blue]],
                      [width |-> 10, height |-> 10, px |-> [c \in Coords(10, 10) |-> Red]],
                      5, 5, 0)

InitCopy ==
    /\ overflow_checks \in BOOLEAN
    /\ InitCopySmall \/ InitCopyScenario
    /\ cropper = Idle
    /\ masker = Idle
    /\ gif = Idle
    /\ rotator = Idle

\* What a call leaves: the destination, and how the call ended.
Outcome(check, st) ==
    IF check = "panic" \/ st.panicked
    THEN [pc |-> "panicked", px |-> st.px, result |-> "none"]
    ELSE [pc |-> "returned", px |-> st.px,
          result |-> IF check = "fits" THEN "ok" ELSE "dimension_mismatch"]

copy_within_alpha_threshold(self, other, x, y, threshold, checks) ==
    LET check == BoundsCheck(self, other, x, y, checks)
        st0 == [px |-> self.px, panicked |-> FALSE]
    IN  Outcome(check, IF check = "fits"
                       THEN StampFrom(0, 0, st0, self, other, x, y, threshold, checks)
                       ELSE st0)

copy_with_blend(self, other, x, y, threshold, checks) ==
    LET check == BoundsCheck(self, other, x, y, checks)
        st0 == [px |-> self.px, panicked |-> FALSE]
    IN  Outcome(check, IF check = "fits"
                       THEN BlendFrom(0, 0, st0, self, other, x, y, threshold, checks)
                       ELSE st0)

CopyWithinAlphaThreshold ==
    /\ compositor.pc = "call"
    /\ compositor.mode = "stamp"
    /\ LET r == copy_within_alpha_threshold(compositor.self, compositor.other,
                    compositor.x, compositor.y, compositor.threshold, overflow_checks)
       IN  compositor' = [compositor EXCEPT
                             !.pc = r.pc, !.self.px = r.px, !.result = r.result]
    /\ UNCHANGED <<overflow_checks, cropper, masker, gif, rotator>>

CopyWithBlend ==
    /\ compositor.pc = "call"
    /\ compositor.mode = "blend"
    /\ LET r == copy_with_blend(compositor.self, compositor.other,
                    compositor.x, compositor.y, compositor.threshold, overflow_checks)
       IN  compositor' = [compositor EXCEPT
                             !.pc = r.pc, !.self.px = r.px, !.result = r.result]
    /\ UNCHANGED <<overflow_checks, cropper, masker, gif, rotator>>

NextCopy == CopyWithinAlphaThreshold \/ CopyWithBlend

SpecCopy == InitCopy /\ [][NextCopy]_vars

(***************************************************************************)
(* Circular masker: round_image                                            *)
(***************************************************************************)

MaxSide == 5    \* buffer sides 1 .. MaxSide
MaxCalls == 2   \* round_image is applied at most MaxCalls times to a buffer

CLEARPIXEL == <<0, 0, 0, 0>>

\* The centred square of a coordinate: (at - side / 2).pow(2).
CentredSquare(at, side, checks) ==
    LET d == USub(at, UHalf(side), checks)
        sq == UPow2(d.v, checks)
    IN  [ok |-> d.ok /\ sq.ok, v |-> sq.v]

\* The test of the inner loop: x + y > radius_squared.
OutsideCircle(x, y, radius_squared, checks) ==
    LET sum == UAdd(x, y, checks)
    IN  [ok |-> sum.ok, v |-> ULt(radius_squared, sum.v)]

\* ClearSample gone wrong: the sample is faded (alpha halved), not cleared.
FadeSample(px, at) == [px EXCEPT ![at] = <<@[1], @[2], @[3], @[4] \div 2>>]

\* img.put_pixel(w, h, CLEARPIXEL)
ClearSample(px, at) == [px EXCEPT ![at] = CLEARPIXEL]

\* The inner loop "for h in 0..img.height()" from row h on, in column w.
RECURSIVE RoundRows(_, _, _, _, _, _, _)
RoundRows(w, h, x, st, img, radius_squared, checks) ==
    IF st.panicked \/ ~ULt(h, img.height) THEN st
    ELSE LET y == CentredSquare(h, img.height, checks)
             out == OutsideCircle(x, y.v, radius_squared, checks)
             next == IF ~y.ok \/ ~out.ok THEN [st EXCEPT !.panicked = TRUE]
                     ELSE IF out.v THEN [st EXCEPT !.px = ClearSample(@, <<w, h>>)]
                     ELSE st
         IN  RoundRows(w, WrapAdd(h, 1), x, next, img, radius_squared, checks)

\* The outer loop "for w in 0..img.width()" from column w on.
RECURSIVE RoundColumns(_, _, _, _, _)
RoundColumns(w, st, img, radius_squared, checks) ==
    IF st.panicked \/ ~ULt(w, img.width) THEN st
    ELSE LET x == CentredSquare(w, img.width, checks)
             next == IF ~x.ok THEN [st EXCEPT !.panicked = TRUE]
                     ELSE RoundRows(w, 0, x.v, st, img, radius_squared, checks)
         IN  RoundColumns(WrapAdd(w, 1), next, img, radius_squared, checks)

\* round_image: the samples it leaves, and whether it panicked.
round_image(img, checks) ==
    LET radius_squared == IF ULt(img.width, img.height)
                          THEN UPow2(UHalf(img.width), checks)
                          ELSE UPow2(UHalf(img.height), checks)
        st0 == [px |-> img.px, panicked |-> FALSE]
    IN  IF ~radius_squared.ok THEN [st0 EXCEPT !.panicked = TRUE]
        ELSE RoundColumns(0, st0, img, radius_squared.v, checks)

\* apply_alpha_threshold: every sample whose alpha is below the threshold
\* becomes CLEARPIXEL.
apply_alpha_threshold(px, threshold) ==
    [c \in DOMAIN px |-> IF px[c][4] < threshold THEN CLEARPIXEL ELSE px[c]]

\* Buffer contents tried: every sample opaque and carrying its position, the
\* same with the samples of even column + row already clear, or the same with
\* the samples of odd column + row translucent.
OpaqueSample(i, k) == <<i + 1, k + 1, 200, 255>>
PartlyClearSample(i, k) == IF (i + k) % 2 = 0 THEN CLEARPIXEL ELSE OpaqueSample(i, k)
TranslucentSample(i, k) == IF (i + k) % 2 = 1 THEN <<i + 1, k + 1, 200, 100>>
                           ELSE OpaqueSample(i, k)
BufferKinds == {"opaque", "partly_clear", "translucent"}

InitRound ==
    /\ overflow_checks \in BOOLEAN
    /\ \E w \in 1..MaxSide, h \in 1..MaxSide, kind \in BufferKinds :
          LET img == [width |-> w, height |-> h,
                      px |-> [c \in Coords(w, h) |->
                                 CASE kind = "opaque" -> OpaqueSample(c[1], c[2])
                                   [] kind = "partly_clear" -> PartlyClearSample(c[1], c[2])
                                   [] kind = "translucent" -> TranslucentSample(c[1], c[2])]]
          IN  masker = [pc |-> "ready", img |-> img, original |-> img,
                        previous |-> img, calls |-> 0]
    /\ cropper = Idle
    /\ compositor = Idle
    /\ gif = Idle
    /\ rotator = Idle

\* One call of round_image on the buffer; previous is the buffer the call got.
RoundImage ==
    /\ masker.pc = "ready"
    /\ masker.calls < MaxCalls
    /\ LET r == round_image(masker.img, overflow_checks)
       IN  masker' = [masker EXCEPT
                         !.pc = IF r.panicked THEN "panicked" ELSE "ready",
                         !.img.px = r.px,
                         !.previous = masker.img,
                         !.calls = IF r.panicked THEN @ ELSE @ + 1]
    /\ UNCHANGED <<overflow_checks, cropper, compositor, gif, rotator>>

\* One call of apply_alpha_threshold on the buffer.  The buffer it leaves is
\* a new starting point: the calls of round_image are counted from it.
ApplyAlphaThreshold ==
    /\ masker.pc = "ready"
    /\ \E threshold \in Thresholds :
          LET px == apply_alpha_threshold(masker.img.px, threshold)
              img == [masker.img EXCEPT !.px = px]
          IN  masker' = [masker EXCEPT !.img = img, !.original = img,
                                       !.previous = img, !.calls = 0]
    /\ UNCHANGED <<overflow_checks, cropper, compositor, gif, rotator>>

NextRound == RoundImage \/ ApplyAlphaThreshold

SpecRound == InitRound /\ [][NextRound]_vars

(***************************************************************************)
(* GIF wrapper: GifAssistant::create_gif                                   *)
(*                                                                         *)
(* The frame generator is a function pointer: whether it fails depends on  *)
(* the index alone (fails is the set of indices it fails at).  The codec   *)
(* may reject a frame when the frames are encoded.                         *)
(***************************************************************************)

MaxIterations == 3   \* iterations 0 .. MaxIterations

Delays == {20, 100}

\* The iteration counts tried: the small ones, and 2^31 and u32::MAX, for
\* which the generator tried fails at one of the first indices.
Iterations == (0..MaxIterations) \cup {I32Min, -1}

ErrResult == [ok |-> FALSE, encoding_bytes |-> <<>>]
OkResult(bytes) == [ok |-> TRUE, encoding_bytes |-> bytes]

\* The loop body gone wrong: a failed call is skipped and the loop goes on.
GeneratorCallSkipping(g) ==
    IF g.i \in g.fails
    THEN [g EXCEPT !.calls = Append(@, g.i), !.i = WrapAdd(@, 1)]
    ELSE [g EXCEPT !.calls = Append(@, g.i),
                   !.frames = Append(@, [index |-> g.i, delay |-> g.ms]),
                   !.i = WrapAdd(@, 1)]

\* The loop body: encoding_function(i, ..)? and the frame pushed.  On Err the
\* function returns the error and the assistant with its bytes is dropped.
GeneratorCall(g) ==
    IF g.i \in g.fails
    THEN [g EXCEPT !.calls = Append(@, g.i), !.pc = "returned", !.result = ErrResult]
    ELSE [g EXCEPT !.calls = Append(@, g.i),
                   !.frames = Append(@, [index |-> g.i, delay |-> g.ms]),
                   !.i = WrapAdd(@, 1)]

\* encoder.encode_frames(frames)?: the frames are written in order into
\* encoding_bytes until the codec rejects one (rejected = 0: none); after a
\* rejection the error is returned, after the last frame the assistant.
EncodeFrames(g, rejected) ==
    IF rejected = 0
    THEN [g EXCEPT !.encoding_bytes = g.frames, !.pc = "returned",
                   !.result = OkResult(g.frames)]
    ELSE [g EXCEPT !.encoding_bytes = SubSeq(g.frames, 1, rejected - 1),
                   !.pc = "returned", !.result = ErrResult]

InitGif ==
    /\ overflow_checks \in BOOLEAN
    /\ \E n \in Iterations, ms \in Delays, fails \in SUBSET (0..(MaxIterations - 1)) :
          /\ ~ULt(n, MaxIterations + 1) => fails # {}
          /\ gif = [pc |-> "start", iterations |-> n, ms |-> ms, fails |-> fails,
                    i |-> 0, calls |-> <<>>, frames |-> <<>>, encoding_bytes |-> <<>>,
                    result |-> [ok |-> FALSE, encoding_bytes |-> <<>>]]
    /\ cropper = Idle
    /\ compositor = Idle
    /\ masker = Idle
    /\ rotator = Idle

\* The assistant and the encoder are built; set_repeat on the fresh encoder
\* only records the repeat and returns Ok.
GifBegin ==
    /\ gif.pc = "start"
    /\ gif' = [gif EXCEPT !.pc = "loop"]
    /\ UNCHANGED <<overflow_checks, cropper, compositor, masker, rotator>>

\* One turn of "for i in 0..iterations".
GifCallGenerator ==
    /\ gif.pc = "loop"
    /\ ULt(gif.i, gif.iterations)
    /\ gif' = GeneratorCall(gif)
    /\ UNCHANGED <<overflow_checks, cropper, compositor, masker, rotator>>

\* The loop is over: the frames are encoded and the function returns.
GifEncodeFrames ==
    /\ gif.pc = "loop"
    /\ ~ULt(gif.i, gif.iterations)
    /\ \E rejected \in 0..Len(gif.frames) : gif' = EncodeFrames(gif, rejected)
    /\ UNCHANGED <<overflow_checks, cropper, compositor, masker, rotator>>

NextGif == GifBegin \/ GifCallGenerator \/ GifEncodeFrames

SpecGif == InitGif /\ [][NextGif]_vars

(***************************************************************************)
(* f64 arithmetic of the rotation filter                                   *)
(*                                                                         *)
(* Every f64 the anti-aliasing pass computes is 0 or lies between 2^-4 and *)
(* 2^10, so it is a whole number of units of 2^-56.  A value is held as    *)
(* that whole number, written in three limbs <<l0, l1, l2>> of 22 bits     *)
(* (l0 the lowest).  Each operation computes the exact result and rounds   *)
(* it to 53 significant bits, ties to even, as IEEE 754 does.              *)
(***************************************************************************)

Limb == 2^22

\* Carries (or borrows) moved up so that the two low limbs are in 0 .. Limb-1.
Norm(t) ==
    LET s1 == t[2] + t[1] \div Limb
    IN  <<t[1] % Limb, s1 % Limb, t[3] + s1 \div Limb>>

BigAdd(a, b) == Norm(<<a[1] + b[1], a[2] + b[2], a[3] + b[3]>>)
BigSub(a, b) == Norm(<<a[1] - b[1], a[2] - b[2], a[3] - b[3]>>)
BigMulSmall(a, p) == Norm(<<a[1] * p, a[2] * p, a[3] * p>>)

BigLt(a, b) ==
    \/ a[3] < b[3]
    \/ a[3] = b[3] /\ a[2] < b[2]
    \/ a[3] = b[3] /\ a[2] = b[2] /\ a[1] < b[1]

BitLenSmall(v) == IF v = 0 THEN 0 ELSE CHOOSE b \in 1..30 : 2^(b - 1) <= v /\ v < 2^b

BitLen(a) ==
    IF a[3] > 0 THEN 44 + BitLenSmall(a[3])
    ELSE IF a[2] > 0 THEN 22 + BitLenSmall(a[2])
    ELSE BitLenSmall(a[1])

FZero == <<0, 0, 0>>
FOne == <<0, 0, 2^12>>

\* The f64 nearest to a + part of a unit, ties to even; part says where the
\* exact result lies between a and a + 1: "exact", "below_half", "half" or
\* "above_half".
RoundToF64(a, part) ==
    LET len == BitLen(a)
    IN  IF len <= 53
        THEN IF part = "above_half" \/ (part = "half" /\ a[1] % 2 = 1)
             THEN BigAdd(a, <<1, 0, 0>>)
             ELSE a
        ELSE LET s == len - 53
                 low == a[1] % 2^s
                 half == 2^(s - 1)
                 down == BigSub(a, <<low, 0, 0>>)
                 odd == (a[1] \div 2^s) % 2 = 1
             IN  IF low > half \/ (low = half /\ (part # "exact" \/ odd))
                 THEN BigAdd(down, <<2^s, 0, 0>>)
                 ELSE down

\* a + b
FAdd(a, b) == RoundToF64(BigAdd(a, b), "exact")

\* (p as f64) * a, p a whole number 0 .. 255
FMulInt(p, a) == RoundToF64(BigMulSmall(a, p), "exact")

\* 1.0 / d, d a small odd whole number
FRecip(d) ==
    LET q2 == FOne[3] \div d
        r2 == FOne[3] % d
        q1 == (r2 * Limb) \div d
        r1 == (r2 * Limb) % d
        q0 == (r1 * Limb) \div d
        r0 == (r1 * Limb) % d
    IN  RoundToF64(<<q0, q1, q2>>,
                   IF r0 = 0 THEN "exact" ELSE IF 2 * r0 < d THEN "below_half" ELSE "above_half")

\* a / b for a divisor b = 1 + e units, e below 2^22.  With D = 2^56 + e the
\* exact quotient is a - (a * e) / D; a * e = t * 2^56 + u gives
\* (a * e) / D = t + (u - t * e) / D, the last term lying in [-1, 1).
FDiv(a, b) ==
    CASE b[3] = FOne[3] /\ b[2] = 0 ->
        LET e == b[1]
            product == BigMulSmall(a, e)
            t == product[3] \div FOne[3]
            u == <<product[1], product[2], product[3] % FOne[3]>>
            te == <<t * e, 0, 0>>
            q == IF BigLt(u, te) THEN t - 1 ELSE t
            rem == IF BigLt(u, te) THEN BigSub(BigAdd(u, b), te) ELSE BigSub(u, te)
            twice == BigAdd(rem, rem)
        IN  IF rem = FZero
            THEN RoundToF64(BigSub(a, <<q, 0, 0>>), "exact")
            ELSE RoundToF64(BigSub(a, <<q + 1, 0, 0>>),
                            IF BigLt(twice, b) THEN "above_half"
                            ELSE IF twice = b THEN "half"
                            ELSE "below_half")

\* r as u8: the whole part, at most 255.
FToU8(a) == UMin(255, a[3] \div FOne[3])

(***************************************************************************)
(* Rotation filter: CustomRotation::rotate                                 *)
(***************************************************************************)

MaxRotate == 3   \* buffer sides 1 .. MaxRotate

\* The angles tried.  At 0 degrees radians is 0.0, whose cosine is 1.0 and
\* whose sine is 0.0, exactly.
Degrees == {0}

\* ((x - radius) * cos - (y - radius) * sin + radius) as u32 and its y
\* counterpart.  With cos = 1.0 and sin = 0.0 the products are x - radius and
\* a zero, and x - radius + radius is x without rounding (radius is a
\* multiple of 0.5).
RotatedPosition(x, y, degrees) ==
    CASE degrees = 0 -> <<x, y>>

\* The position a source sample is written to: the rotated position, pulled
\* back to the last column or row when it lies beyond.
Destination(x, y, width, height, degrees) ==
    LET at == RotatedPosition(x, y, degrees)
    IN  <<IF ~ULt(at[1], width) THEN WrapSub(width, 1) ELSE at[1],
          IF ~ULt(at[2], height) THEN WrapSub(height, 1) ELSE at[2]>>

\* The first pass, "for x in 0..width", "for y in 0..height", from the
\* source sample (x, y) on (column by column): each source sample is put at
\* its destination in new_image.
RECURSIVE ScatterFrom(_, _, _, _, _)
ScatterFrom(x, y, px, img, degrees) ==
    IF ~ULt(x, img.width) THEN px
    ELSE IF ~ULt(y, img.height) THEN ScatterFrom(WrapAdd(x, 1), 0, px, img, degrees)
    ELSE ScatterFrom(x, WrapAdd(y, 1),
             [px EXCEPT ![Destination(x, y, img.width, img.height, degrees)] =
                            img.px[<<x, y>>]],
             img, degrees)

\* let kernel = 1.0 / 9.0
Kernel == FRecip(9)

\* kernel_sum after n turns of "kernel_sum += kernel".
RECURSIVE KernelSumAfter(_)
KernelSumAfter(n) == IF n = 0 THEN FZero ELSE FAdd(KernelSumAfter(n - 1), Kernel)

KernelSum == KernelSumAfter(3 * 3)

\* x as i32 + i - 1: the i32 sum and difference, each of which may trap.
NeighbourIndex(at, i, checks) ==
    LET sum == IAdd(at, i, checks)
        index == ISub(sum.v, 1, checks)
    IN  [ok |-> sum.ok /\ index.ok, v |-> index.v]

\* Whether (x_new, y_new) is a position of the buffer, the four tests taken
\* in order until one fails: a side is converted to i32 only when the tests
\* before it hold, and the conversion of a side above i32::MAX panics.
InRange(x_new, y_new, width, height) ==
    IF x_new < 0 THEN [ok |-> TRUE, v |-> FALSE]
    ELSE IF ~U32ToI32(width).ok THEN [ok |-> FALSE, v |-> FALSE]
    ELSE IF ~(x_new < U32ToI32(width).v) \/ y_new < 0 THEN [ok |-> TRUE, v |-> FALSE]
    ELSE IF ~U32ToI32(height).ok THEN [ok |-> FALSE, v |-> FALSE]
    ELSE [ok |-> TRUE, v |-> y_new < U32ToI32(height).v]

\* The sum r (channel 1), g (2) or b (3) of the sample at (x, y) from
\* neighbour number n on, n = 3 * i + j, read from px as it is now;
\* st = [sum, panicked].
RECURSIVE NeighbourSum(_, _, _, _, _, _, _, _, _)
NeighbourSum(n, st, px, x, y, width, height, channel, checks) ==
    IF st.panicked \/ n >= 3 * 3 THEN st
    ELSE LET x_new == NeighbourIndex(x, n \div 3, checks)
             y_new == NeighbourIndex(y, n % 3, checks)
             in_range == InRange(x_new.v, y_new.v, width, height)
             next == IF ~x_new.ok \/ ~y_new.ok \/ ~in_range.ok
                     THEN [st EXCEPT !.panicked = TRUE]
                     ELSE IF in_range.v
                     THEN [st EXCEPT !.sum =
                              FAdd(@, FMulInt(px[<<x_new.v, y_new.v>>][channel], Kernel))]
                     ELSE st
         IN  NeighbourSum(n + 1, next, px, x, y, width, height, channel, checks)

\* The sample the second pass puts at (x, y), or a panic.
Blurred(px, x, y, width, height, checks) ==
    LET st0 == [sum |-> FZero, panicked |-> FALSE]
        r == NeighbourSum(0, st0, px, x, y, width, height, 1, checks)
        g == NeighbourSum(0, st0, px, x, y, width, height, 2, checks)
        b == NeighbourSum(0, st0, px, x, y, width, height, 3, checks)
    IN  [panicked |-> r.panicked,
         v |-> <<FToU8(FDiv(r.sum, KernelSum)), FToU8(FDiv(g.sum, KernelSum)),
                 FToU8(FDiv(b.sum, KernelSum)), 255>>]

\* The second pass from the sample (x, y) on (column by column): new_image
\* is read and written in place; st = [px, panicked].
RECURSIVE BlurFrom(_, _, _, _, _, _)
BlurFrom(x, y, st, width, height, checks) ==
    IF st.panicked \/ ~ULt(x, width) THEN st
    ELSE IF ~ULt(y, height) THEN BlurFrom(WrapAdd(x, 1), 0, st, width, height, checks)
    ELSE LET sample == Blurred(st.px, x, y, width, height, checks)
             next == IF sample.panicked THEN [st EXCEPT !.panicked = TRUE]
                     ELSE [st EXCEPT !.px[<<x, y>>] = sample.v]
         IN  BlurFrom(x, WrapAdd(y, 1), next, width, height, checks)

\* Buffer contents tried: one sample where column + row is even, another
\* where it is odd.
White == <<255, 255, 255, 255>>
Tinted == <<9, 90, 200, 128>>
RotateSamples == {White, Tinted, CLEARPIXEL}

InitRotate ==
    /\ overflow_checks \in BOOLEAN
    /\ \E w \in 1..MaxRotate, h \in 1..MaxRotate, degrees \in Degrees,
          even \in RotateSamples, odd \in RotateSamples :
          rotator = [pc |-> "call", degrees |-> degrees,
                     image |-> [width |-> w, height |-> h,
                                px |-> [c \in Coords(w, h) |->
                                           IF (c[1] + c[2]) % 2 = 0 THEN even ELSE odd]],
                     rotated |-> <<>>, new_image |-> <<>>]
    /\ cropper = Idle
    /\ compositor = Idle
    /\ masker = Idle
    /\ gif = Idle

\* rotate, first half: new_image is made (RgbaImage::new: every sample
\* 0, 0, 0, 0) and the source samples are put at their rotated positions.
RotateScatter ==
    /\ rotator.pc = "call"
    /\ LET img == rotator.image
           blank == [c \in Coords(img.width, img.height) |-> CLEARPIXEL]
           px == ScatterFrom(0, 0, blank, img, rotator.degrees)
           scattered == [width |-> img.width, height |-> img.height, px |-> px]
       IN  rotator' = [rotator EXCEPT !.pc = "rotated", !.rotated = scattered,
                                      !.new_image = scattered]
    /\ UNCHANGED <<overflow_checks, cropper, compositor, masker, gif>>

\* rotate, second half: the anti-aliasing pass over new_image, which is then
\* returned.  rotated keeps the buffer the pass started from.
RotateBlur ==
    /\ rotator.pc = "rotated"
    /\ LET st == BlurFrom(0, 0, [px |-> rotator.new_image.px, panicked |-> FALSE],
                          rotator.new_image.width, rotator.new_image.height,
                          overflow_checks)
       IN  rotator' = [rotator EXCEPT
                          !.pc = IF st.panicked THEN "panicked" ELSE "returned",
                          !.new_image.px = st.px]
    /\ UNCHANGED <<overflow_checks, cropper, compositor, masker, gif>>

NextRotate == RotateScatter \/ RotateBlur

SpecRotate == InitRotate /\ [][NextRotate]_vars

(***************************************************************************)
(* Claims about out_of_bounds_crop                                         *)
(***************************************************************************)

\* What the Y axis step alone makes of the whole image.
AfterYAxis ==
    CheckYAxis([image |-> WholeImage(cropper.width, cropper.height),
                x_pos |-> 0, y_pos |-> 0],
               cropper.y_pos, cropper.max_height, overflow_checks).output

\* What the X axis step alone makes of the whole image.
AfterXAxisAlone ==
    CheckXAxis([image |-> WholeImage(cropper.width, cropper.height),
                x_pos |-> 0, y_pos |-> 0],
               cropper.x_pos, cropper.max_width, overflow_checks).output

\* C1: whenever out_of_bounds_crop returns, the returned image placed at the
\* returned position lies within the canvas on both axes:
\* x_pos + width <= max_width and y_pos + height <= max_height.
C1_OutputWithinCanvas ==
    cropper.pc = "done" =>
        /\ cropper.output.image.width <= cropper.max_width - cropper.output.x_pos
        /\ cropper.output.image.height <= cropper.max_height - cropper.output.y_pos

\* An axis that lies entirely outside the canvas.
OutsideCanvas(pos, size, max) == pos >= max \/ pos + size <= 0

\* C2: out_of_bounds_crop never fails (no failed conversion, no underflow),
\* and an axis that lies entirely outside the canvas comes back with size 0.
C2_NeverFails ==
    /\ cropper.pc # "panicked"
    /\ cropper.pc = "done" =>
          /\ OutsideCanvas(cropper.x_pos, cropper.width, cropper.max_width)
                => cropper.output.image.width = 0
          /\ OutsideCanvas(cropper.y_pos, cropper.height, cropper.max_height)
                => cropper.output.image.height = 0

\* C3: the two axes are resolved independently: the returned height and
\* y_pos are those the Y axis step yields from (height, y_pos, max_height),
\* the returned width and x_pos those the X axis step yields from (width,
\* x_pos, max_width); and a 50x50 image placed at (-10, 5) on a 40x40 canvas
\* comes back 40x35 at x_pos = 0, y_pos = 5.
C3_AxesIndependent ==
    cropper.pc = "done" =>
        /\ cropper.output.image.height = AfterYAxis.image.height
        /\ cropper.output.y_pos = AfterYAxis.y_pos
        /\ cropper.output.image.width = AfterXAxisAlone.image.width
        /\ cropper.output.x_pos = AfterXAxisAlone.x_pos
        /\ (/\ cropper.width = 50 /\ cropper.height = 50
            /\ cropper.x_pos = -10 /\ cropper.y_pos = 5
            /\ cropper.max_width = 40 /\ cropper.max_height = 40)
           => /\ cropper.output.image.width = 40
              /\ cropper.output.image.height = 35
              /\ cropper.output.x_pos = 0
              /\ cropper.output.y_pos = 5

\* C10: on an axis with a negative placement whose far edge stays within the
\* max, the step keeps the image without its leading |placement| rows (Y) or
\* columns (X), sets that axis' placement to 0 and does not reduce the other
\* axis; for the Y axis and for the X axis alike.
C10_LeadingEdgeCrop ==
    /\ (/\ cropper.pc = "x_axis"
        /\ cropper.y_pos < 0
        /\ cropper.y_pos + cropper.height >= 0
        /\ cropper.y_pos + cropper.height <= cropper.max_height)
       => /\ cropper.output.image =
                [left |-> 0, top |-> 0 - cropper.y_pos,
                 width |-> cropper.width,
                 height |-> cropper.y_pos + cropper.height]
          /\ cropper.output.y_pos = 0
    /\ (/\ cropper.pc = "done"
        /\ cropper.x_pos < 0
        /\ cropper.x_pos + cropper.width >= 0
        /\ cropper.x_pos + cropper.width <= cropper.max_width)
       => /\ cropper.output.image =
                [left |-> 0 - cropper.x_pos, top |-> AfterYAxis.image.top,
                 width |-> cropper.x_pos + cropper.width,
                 height |-> AfterYAxis.image.height]
          /\ cropper.output.x_pos = 0
          /\ cropper.output.y_pos = AfterYAxis.y_pos

(***************************************************************************)
(* Claims about the alpha compositor                                       *)
(***************************************************************************)

CopyEnded == compositor.pc \in {"returned", "panicked"}

\* offset + size > limit over the integers, offset a u32 pattern (a pattern
\* with the top bit set is at least 2^31, above every limit tried).
TrueSumExceeds(offset, size, limit) == offset < 0 \/ offset + size > limit

DoesNotFit ==
    \/ TrueSumExceeds(compositor.x, compositor.other.width, compositor.self.width)
    \/ TrueSumExceeds(compositor.y, compositor.other.height, compositor.self.height)

\* The destination positions the overlay covers when it fits.
Footprint ==
    {c \in Coords(compositor.self.width, compositor.self.height) :
        /\ compositor.x <= c[1] /\ c[1] < compositor.x + compositor.other.width
        /\ compositor.y <= c[2] /\ c[2] < compositor.y + compositor.other.height}

\* C4: both functions return the dimension-mismatch error exactly when
\* x + other.width > self.width or y + other.height > self.height over the
\* integers, for every u32 x and y, and leave the destination unwritten when
\* they return it.
C4_DimensionErrorIff ==
    CopyEnded =>
        /\ (compositor.result = "dimension_mismatch") <=> DoesNotFit
        /\ compositor.result = "dimension_mismatch"
              => compositor.self.px = compositor.before.px

\* C5: when the overlay fits, copy_within_alpha_threshold leaves every
\* destination sample outside the overlay's footprint as it was.
C5_StampFrame ==
    (CopyEnded /\ compositor.mode = "stamp" /\ ~DoesNotFit) =>
        \A c \in Coords(compositor.self.width, compositor.self.height) \ Footprint :
            compositor.self.px[c] = compositor.before.px[c]

\* C5 witness: a stamp of a fitting overlay has returned, has written a
\* sample, and the destination has samples outside the footprint.
C5_Witness ==
    /\ compositor.pc = "returned" /\ compositor.mode = "stamp" /\ ~DoesNotFit
    /\ compositor.self.px # compositor.before.px
    /\ Coords(compositor.self.width, compositor.self.height) \ Footprint # {}
    /\ compositor.x > 0

\* C6: when the overlay fits, copy_within_alpha_threshold returns Ok and for
\* every overlay sample (i, k) the destination sample at (i + x, k + y) equals
\* the overlay sample in all four channels if its alpha is above the
\* threshold, and is the previous destination sample otherwise; the 10x10 red
\* overlay stamped at (5, 5) on the 20x20 blue base gives red exactly in
\* columns and rows 5 .. 14 and blue elsewhere.
C6_StampSamples ==
    (CopyEnded /\ compositor.mode = "stamp" /\ ~DoesNotFit) =>
        /\ compositor.pc = "returned" /\ compositor.result = "ok"
        /\ \A c \in Coords(compositor.other.width, compositor.other.height) :
              LET at == <<c[1] + compositor.x, c[2] + compositor.y>>
              IN  compositor.self.px[at] =
                      IF compositor.other.px[c][4] > compositor.threshold
                      THEN compositor.other.px[c]
                      ELSE compositor.before.px[at]
        /\ compositor.self.width = 20 =>
              \A c \in Coords(20, 20) :
                  compositor.self.px[c] =
                      IF c[1] \in 5..14 /\ c[2] \in 5..14 THEN Red ELSE Blue

\* C6 witness: a stamp has returned whose overlay has a sample above the
\* threshold and a sample exactly at it.
C6_Witness ==
    /\ compositor.pc = "returned" /\ compositor.mode = "stamp" /\ ~DoesNotFit
    /\ \E c \in Coords(compositor.other.width, compositor.other.height) :
          compositor.other.px[c][4] > compositor.threshold
    /\ \E c \in Coords(compositor.other.width, compositor.other.height) :
          /\ compositor.other.px[c][4] = compositor.threshold
          /\ compositor.threshold > 0

(***************************************************************************)
(* Claims about round_image                                                *)
(***************************************************************************)

Min(a, b) == IF a < b THEN a ELSE b

\* (w - width/2)^2 + (h - height/2)^2 > (min(width, height)/2)^2 over the
\* integers, the divisions rounding down.
BeyondRadius(w, h, width, height) ==
    LET dx == w - width \div 2
        dy == h - height \div 2
        r == Min(width, height) \div 2
    IN  dx * dx + dy * dy > r * r

\* The buffer with exactly the samples beyond the radius cleared.
Masked(img) ==
    [c \in Coords(img.width, img.height) |->
        IF BeyondRadius(c[1], c[2], img.width, img.height) THEN CLEARPIXEL
        ELSE img.px[c]]

\* C7: a call of round_image returns, having cleared to (0,0,0,0) exactly the
\* samples (w, h) with (w - width/2)^2 + (h - height/2)^2 >
\* (min(width, height)/2)^2 in signed arithmetic, every other sample keeping
\* its value.
C7_ClearsBeyondRadius ==
    /\ masker.pc # "panicked"
    /\ (masker.pc = "ready" /\ masker.calls = 1) =>
          masker.img.px = Masked(masker.original)

\* C8: round_image is idempotent: once a call has returned, a second call on
\* the buffer it left returns too and leaves the same buffer.
C8_Idempotent ==
    /\ (masker.pc # "idle" /\ masker.calls >= 1) => masker.pc = "ready"
    /\ (masker.pc = "ready" /\ masker.calls >= 2) =>
          masker.img.px = masker.previous.px

\* C8 witness: a second call has returned on a buffer whose first call
\* cleared some samples and kept others.
C8_Witness ==
    /\ masker.pc = "ready" /\ masker.calls = 2
    /\ masker.img.px # masker.original.px
    /\ \E c \in DOMAIN masker.img.px : masker.img.px[c] # CLEARPIXEL

\* The u32 operations one call of round_image performs on the buffer it got
\* that pass the range of u32: a centred difference below 0, or a square or
\* a sum from 2^32 on.
WrappingOperations(img) ==
    {c \in Coords(img.width, img.height) :
        \/ ~USub(c[1], UHalf(img.width), TRUE).ok
        \/ ~USub(c[2], UHalf(img.height), TRUE).ok
        \/ ~CentredSquare(c[1], img.width, FALSE).ok
        \/ ~UAdd(CentredSquare(c[1], img.width, FALSE).v,
                 CentredSquare(c[2], img.height, FALSE).v, TRUE).ok}

\* C11: round_image has no error condition: no call panics, and no centred
\* difference, square or sum of a call leaves the range of u32, also at the
\* coordinates with w < width/2 or h < height/2.
C11_NoUnderflow ==
    /\ masker.pc # "panicked"
    /\ (masker.pc = "ready" /\ masker.calls >= 1) =>
          WrappingOperations(masker.previous) = {}

(***************************************************************************)
(* Claims about GifAssistant::create_gif                                   *)
(***************************************************************************)

FailedCalls == {j \in 1..Len(gif.calls) : gif.calls[j] \in gif.fails}

\* C9: the generator is called once per index, in the order 0, 1, 2, ..; no
\* call follows a failed call; when create_gif returns after a failed call
\* it returns an error with no encoded bytes, and when it returns with no
\* failed call every index 0 .. iterations-1 has been called.
C9_GeneratorCalls ==
    gif.pc # "idle" =>
        /\ \A j \in 1..Len(gif.calls) : gif.calls[j] = j - 1
        /\ \A j \in FailedCalls : j = Len(gif.calls)
        /\ gif.pc = "returned" =>
              /\ FailedCalls # {} =>
                    /\ ~gif.result.ok
                    /\ gif.result.encoding_bytes = <<>>
              /\ FailedCalls = {} => Len(gif.calls) = gif.iterations
              /\ ~gif.result.ok => gif.result.encoding_bytes = <<>>

\* C9 witness: create_gif has returned after a call that failed at an index
\* that has calls before it and indices after it.
C9_Witness ==
    /\ gif.pc = "returned"
    /\ \E j \in FailedCalls : j > 1 /\ ULt(gif.calls[j] + 1, gif.iterations)

(***************************************************************************)
(* Claims about CustomRotation::rotate                                     *)
(***************************************************************************)

\* The in-range 3x3 neighbours of a position.
Neighbours(c, width, height) ==
    {d \in Coords(width, height) :
        /\ d[1] - c[1] \in {-1, 0, 1}
        /\ d[2] - c[2] \in {-1, 0, 1}}

RECURSIVE ChannelTotal(_, _, _)
ChannelTotal(set, px, channel) ==
    IF set = {} THEN 0
    ELSE LET d == CHOOSE e \in set : TRUE
         IN  px[d][channel] + ChannelTotal(set \ {d}, px, channel)

\* C12: rotate at 0 degrees on a square buffer returns a buffer of the same
\* dimensions whose every sample has alpha 255 and, in each of R, G and B,
\* the sum of that channel over the in-range 3x3 neighbours in the rotated,
\* not yet blurred buffer, divided by 9 and truncated.
C12_BlurReadsRotatedBuffer ==
    (/\ rotator.pc = "returned"
     /\ rotator.degrees = 0
     /\ rotator.image.width = rotator.image.height) =>
        /\ rotator.new_image.width = rotator.image.width
        /\ rotator.new_image.height = rotator.image.height
        /\ \A c \in Coords(rotator.image.width, rotator.image.height) :
              /\ rotator.new_image.px[c][4] = 255
              /\ \A channel \in 1..3 :
                    rotator.new_image.px[c][channel] =
                        ChannelTotal(Neighbours(c, rotator.image.width,
                                                rotator.image.height),
                                     rotator.rotated.px, channel) \div 9

====
